---- MODULE Spec2Model ----
(***************************************************************************)
(* Model of the Korean statistics analyzer: the orchestrator mainLogic     *)
(* (src/unnamed/part_000) and the utilities it calls (src/jest.config.cjs, *)
(* lines 15-244: the text of utils.js).                                    *)
(*                                                                         *)
(* JavaScript values are records [t, b, n, s]: t is the typeof tag, b the  *)
(* boolean, n the (integer) number, s the string.  A string is a sequence  *)
(* of atoms: an atom is one character, or a word that no operation of the  *)
(* program looks inside.  A Hangul syllable is one atom, written as its    *)
(* romanisation in brackets ("[in]", "[gu]" for the two syllables of the   *)
(* word for population).                                                   *)
(***************************************************************************)
EXTENDS Integers, Sequences, FiniteSets, TLC

VARIABLES
    pc,                \* position of the run / of the call under check
    input,             \* Actor.getInput(): the raw key-value input object
    validatedInput,    \* mainLogic: const validatedInput
    envKey,            \* process.env.KOSIS_API_KEY is set
    storeKey,          \* Actor.getValue('KOSIS_API_KEY') yields a key
    kosisApiKey,       \* mainLogic: const kosisApiKey (TRUE when truthy)
    tablesToProcess,   \* mainLogic: const tablesToProcess
    listed,            \* mainLogic: const statsList
    processedTables,   \* mainLogic: let processedTables
    totalDataPoints,   \* mainLogic: let totalDataPoints
    allNormalizedData, \* mainLogic: let allNormalizedData
    error,             \* the error caught by the top-level catch
    sink,              \* records pushed with Actor.pushData, in order
    calls,             \* calls made to the collaborators, in order
    history,           \* per table of the loop: what happened to it
    arg,               \* argument of the pure function under check
    ret                \* its result

vars == <<pc, input, validatedInput, envKey, storeKey, kosisApiKey,
          tablesToProcess, listed, processedTables, totalDataPoints,
          allNormalizedData, error, sink, calls, history, arg, ret>>

runVars == <<input, validatedInput, envKey, storeKey, kosisApiKey,
             tablesToProcess, listed, processedTables, totalDataPoints,
             allNormalizedData, error, sink, calls, history>>

----------------------------------------------------------------------------
(* Bounds of the model.                                                    *)

MaxStrLen == 3      \* longest string drawn for a numeric input field
MaxTables == 3      \* longest list the Table Lister returns
MaxRows == 3        \* most rows in one table's payload
MaxFrags == 2       \* most fragments concatenated into a statistic name

----------------------------------------------------------------------------
(* JavaScript values.                                                      *)

JS(t, b, n, s) == [t |-> t, b |-> b, n |-> n, s |-> s]
Undef == JS("undefined", FALSE, 0, <<>>)
Null == JS("null", FALSE, 0, <<>>)
Bool(b) == JS("boolean", b, 0, <<>>)
Num(n) == JS("number", FALSE, n, <<>>)
Str(s) == JS("string", FALSE, 0, s)

\* ToBoolean: undefined, null, false, 0 and "" are falsy.
Truthy(v) ==
    CASE v.t = "undefined" -> FALSE
      [] v.t = "null" -> FALSE
      [] v.t = "boolean" -> v.b
      [] v.t = "number" -> v.n # 0
      [] v.t = "string" -> v.s # <<>>

\* a || b
Or(a, b) == IF Truthy(a) THEN a ELSE b

Nullish(v) == v.t \in {"undefined", "null"}

\* A thrown Error: its message is a string (a sequence of atoms).
Returned(v) == [threw |-> FALSE, message |-> <<>>, value |-> v]
Thrown(msg) == [threw |-> TRUE, message |-> msg, value |-> Undef]

----------------------------------------------------------------------------
(* String primitives.                                                      *)

WhiteSpace == {" "}

RECURSIVE TrimStart(_)
TrimStart(s) ==
    IF s # <<>> /\ Head(s) \in WhiteSpace THEN TrimStart(Tail(s)) ELSE s

RECURSIVE TrimEnd(_)
TrimEnd(s) ==
    IF s # <<>> /\ s[Len(s)] \in WhiteSpace
    THEN TrimEnd(SubSeq(s, 1, Len(s) - 1))
    ELSE s

\* String.prototype.trim
Trim(s) == TrimEnd(TrimStart(s))

\* String.prototype.includes: needle occurs in s as a contiguous run.
Includes(s, needle) ==
    \E i \in 1..(Len(s) - Len(needle) + 1) :
        SubSeq(s, i, i + Len(needle) - 1) = needle

UpperToLower ==
    [c \in {"A", "B", "C", "D", "E", "F", "G", "H", "I", "J", "K", "L", "M",
            "N", "O", "P", "Q", "R", "S", "T", "U", "V", "W", "X", "Y", "Z"} |->
        CASE c = "A" -> "a" [] c = "B" -> "b" [] c = "C" -> "c"
          [] c = "D" -> "d" [] c = "E" -> "e" [] c = "F" -> "f"
          [] c = "G" -> "g" [] c = "H" -> "h" [] c = "I" -> "i"
          [] c = "J" -> "j" [] c = "K" -> "k" [] c = "L" -> "l"
          [] c = "M" -> "m" [] c = "N" -> "n" [] c = "O" -> "o"
          [] c = "P" -> "p" [] c = "Q" -> "q" [] c = "R" -> "r"
          [] c = "S" -> "s" [] c = "T" -> "t" [] c = "U" -> "u"
          [] c = "V" -> "v" [] c = "W" -> "w" [] c = "X" -> "x"
          [] c = "Y" -> "y" [] c = "Z" -> "z"]

LowerOf(c) == IF c \in DOMAIN UpperToLower THEN UpperToLower[c] ELSE c

\* String.prototype.toLowerCase: Latin capitals are mapped, every other
\* atom (Hangul, digits, punctuation, lower case) is left alone.
ToLowerCase(s) == [i \in 1..Len(s) |-> LowerOf(s[i])]

DigitVal ==
    [c \in {"0", "1", "2", "3", "4", "5", "6", "7", "8", "9",
            "a", "b", "c", "d", "e", "f"} |->
        CASE c = "0" -> 0 [] c = "1" -> 1 [] c = "2" -> 2 [] c = "3" -> 3
          [] c = "4" -> 4 [] c = "5" -> 5 [] c = "6" -> 6 [] c = "7" -> 7
          [] c = "8" -> 8 [] c = "9" -> 9 [] c = "a" -> 10 [] c = "b" -> 11
          [] c = "c" -> 12 [] c = "d" -> 13 [] c = "e" -> 14 [] c = "f" -> 15]

IsDigitLower(l, radix) == l \in DOMAIN DigitVal /\ DigitVal[l] < radix
IsDigit(c, radix) == IsDigitLower(LowerOf(c), radix)

DigitOf(c) == DigitVal[LowerOf(c)]

\* Length of the longest prefix of s made of digits of the radix.
RECURSIVE DigitRun(_, _)
DigitRun(s, radix) ==
    IF s # <<>> /\ IsDigit(Head(s), radix)
    THEN 1 + DigitRun(Tail(s), radix)
    ELSE 0

\* Value of a sequence of digits.
RECURSIVE DigitsValue(_, _)
DigitsValue(s, radix) ==
    IF s = <<>> THEN 0
    ELSE DigitsValue(SubSeq(s, 1, Len(s) - 1), radix) * radix
            + DigitOf(s[Len(s)])

NaN == [nan |-> TRUE, n |-> 0]
Number(n) == [nan |-> FALSE, n |-> n]

\* parseInt(string) without a radix: leading white space, an optional sign,
\* an optional 0x prefix, then the longest run of digits; NaN without one.
ParseRun(neg, radix, digits, k) ==
    IF k = 0 THEN NaN
    ELSE IF neg THEN Number(0 - DigitsValue(SubSeq(digits, 1, k), radix))
    ELSE Number(DigitsValue(SubSeq(digits, 1, k), radix))

ParseDigits(neg, radix, digits) ==
    ParseRun(neg, radix, digits, DigitRun(digits, radix))

IsHexPrefixed(s) == Len(s) >= 2 /\ s[1] = "0" /\ s[2] \in {"x", "X"}

ParseUnsigned(neg, s) ==
    IF IsHexPrefixed(s) THEN ParseDigits(neg, 16, SubSeq(s, 3, Len(s)))
    ELSE ParseDigits(neg, 10, s)

ParseSigned(s) ==
    IF s # <<>> /\ Head(s) \in {"-", "+"}
    THEN ParseUnsigned(Head(s) = "-", Tail(s))
    ELSE ParseUnsigned(FALSE, s)

ParseIntString(str) == ParseSigned(TrimStart(str))

\* parseInt(v): the argument is converted to a string first; an integer
\* number prints as its digits, undefined, null and booleans print as words.
ParseInt(v) ==
    CASE v.t = "number" -> Number(v.n)
      [] v.t = "string" -> ParseIntString(v.s)
      [] OTHER -> NaN

\* parseInt(v) || dflt: NaN and 0 are falsy.
OrDefault(p, dflt) == IF p.nan \/ p.n = 0 THEN dflt ELSE p.n
ParseIntOr(v, dflt) == OrDefault(ParseInt(v), dflt)

Max(a, b) == IF a >= b THEN a ELSE b
Min(a, b) == IF a <= b THEN a ELSE b

----------------------------------------------------------------------------
(* validateInput (utils.js).                                               *)

\* The words of an error message (the atoms of a message are its words).
NotAFunction(what) == <<what, "is", "not", "a", "function">>

\* v?.trim(): undefined for undefined and null, the trimmed string for a
\* string, a TypeError for any other value (it has no trim method).
OptionalTrim(v, what) ==
    CASE Nullish(v) -> Returned(Undef)
      [] v.t = "string" -> Returned(Str(Trim(v.s)))
      [] OTHER -> Thrown(NotAFunction(what))

\* Math.min(Math.max(parseInt(input.maxItems) || 10, 1), 100)
ClampMaxItems_NoCeiling(v) == Max(ParseIntOr(v, 10), 1)
ClampMaxItems(v) == Min(Max(ParseIntOr(v, 10), 1), 100)

\* Math.max(parseInt(input.delayBetweenRequests) || 1000, 500)
FloorDelay(v) == Max(ParseIntOr(v, 1000), 500)

OutputFormats == {<<"structured">>, <<"raw">>, <<"both">>}

\* ['structured','raw','both'].includes(x) ? x : 'structured'
CoerceOutputFormat(v) ==
    IF v.t = "string" /\ v.s \in OutputFormats THEN v.s ELSE <<"structured">>

\* Boolean(input.includeMetadata !== false)
CoerceIncludeMetadata(v) == ~(v.t = "boolean" /\ v.b = FALSE)

\* The object literal, once the three ?.trim() calls have returned or thrown.
ValidatedOf(inp, kw, vw, pid) ==
    IF kw.threw THEN Thrown(kw.message)
    ELSE IF vw.threw THEN Thrown(vw.message)
    ELSE IF pid.threw THEN Thrown(pid.message)
    ELSE Returned(
        [searchKeyword |-> Or(kw.value, Str(<<>>)).s,
         vwCd |-> Or(vw.value, Str(<<"MT_ZTITLE">>)).s,
         parentId |-> Or(pid.value, Str(<<"A">>)).s,
         maxItems |-> ClampMaxItems(inp.maxItems),
         includeMetadata |-> CoerceIncludeMetadata(inp.includeMetadata),
         outputFormat |-> CoerceOutputFormat(inp.outputFormat),
         delayBetweenRequests |-> FloorDelay(inp.delayBetweenRequests)])

validateInput(inp) ==
    ValidatedOf(inp,
                OptionalTrim(inp.searchKeyword, "input.searchKeyword?.trim"),
                OptionalTrim(inp.vwCd, "input.vwCd?.trim"),
                OptionalTrim(inp.parentId, "input.parentId?.trim"))

----------------------------------------------------------------------------
(* determineDataType (utils.js).                                           *)

\* The keywords of the if-chain, by line.
Kw_ingu == <<"[in]", "[gu]">>
Kw_population == <<"p", "o", "p", "u", "l", "a", "t", "i", "o", "n">>
Kw_gyeongje == <<"[gyeong]", "[je]">>
Kw_gdp == <<"g", "d", "p">>
Kw_gyeongjeseongjang == <<"[gyeong]", "[je]", "[seong]", "[jang]">>
Kw_nodong == <<"[no]", "[dong]">>
Kw_goyong == <<"[go]", "[yong]">>
Kw_chwieop == <<"[chwi]", "[eop]">>
Kw_saneop == <<"[san]", "[eop]">>
Kw_jejoeop == <<"[je]", "[jo]", "[eop]">>
Kw_gyoyuk == <<"[gyo]", "[yuk]">>
Kw_hakgyo == <<"[hak]", "[gyo]">>
Kw_uiryo == <<"[ui]", "[ryo]">>
Kw_bogeon == <<"[bo]", "[geon]">>
Kw_geongang == <<"[geon]", "[gang]">>
Kw_hwangyeong == <<"[hwan]", "[gyeong]">>
Kw_oyeom == <<"[o]", "[yeom]">>
Kw_jutaek == <<"[ju]", "[taek]">>
Kw_budongsan == <<"[bu]", "[dong]", "[san]">>
Kw_sodeuk == <<"[so]", "[deuk]">>
Kw_sobi == <<"[so]", "[bi]">>
Kw_gagye == <<"[ga]", "[gye]">>
Kw_mulga == <<"[mul]", "[ga]">>
Kw_gagyeok == <<"[ga]", "[gyeok]">>

\* The names of the data types, as strings.
Ty_population == <<"p", "o", "p", "u", "l", "a", "t", "i", "o", "n">>
Ty_economic == <<"e", "c", "o", "n", "o", "m", "i", "c">>
Ty_labor == <<"l", "a", "b", "o", "r">>
Ty_industry == <<"i", "n", "d", "u", "s", "t", "r", "y">>
Ty_education == <<"e", "d", "u", "c", "a", "t", "i", "o", "n">>
Ty_health == <<"h", "e", "a", "l", "t", "h">>
Ty_environment == <<"e", "n", "v", "i", "r", "o", "n", "m", "e", "n", "t">>
Ty_housing == <<"h", "o", "u", "s", "i", "n", "g">>
Ty_income == <<"i", "n", "c", "o", "m", "e">>
Ty_prices == <<"p", "r", "i", "c", "e", "s">>
Ty_general == <<"g", "e", "n", "e", "r", "a", "l">>
Ty_error == <<"e", "r", "r", "o", "r">>

\* The if-chain over name = statName.toLowerCase().
Classify(name) ==
    IF Includes(name, Kw_ingu) \/ Includes(name, Kw_population)
        THEN Ty_population
    ELSE IF Includes(name, Kw_gyeongje) \/ Includes(name, Kw_gdp)
            \/ Includes(name, Kw_gyeongjeseongjang) THEN Ty_economic
    ELSE IF Includes(name, Kw_nodong) \/ Includes(name, Kw_goyong)
            \/ Includes(name, Kw_chwieop) THEN Ty_labor
    ELSE IF Includes(name, Kw_saneop) \/ Includes(name, Kw_jejoeop)
        THEN Ty_industry
    ELSE IF Includes(name, Kw_gyoyuk) \/ Includes(name, Kw_hakgyo)
        THEN Ty_education
    ELSE IF Includes(name, Kw_uiryo) \/ Includes(name, Kw_bogeon)
            \/ Includes(name, Kw_geongang) THEN Ty_health
    ELSE IF Includes(name, Kw_hwangyeong) \/ Includes(name, Kw_oyeom)
        THEN Ty_environment
    ELSE IF Includes(name, Kw_jutaek) \/ Includes(name, Kw_budongsan)
        THEN Ty_housing
    ELSE IF Includes(name, Kw_sodeuk) \/ Includes(name, Kw_sobi)
            \/ Includes(name, Kw_gagye) THEN Ty_income
    ELSE IF Includes(name, Kw_mulga) \/ Includes(name, Kw_gagyeok)
        THEN Ty_prices
    ELSE Ty_general

\* The same chain with the first two tests exchanged.
Classify_EconomicFirst(name) ==
    IF Includes(name, Kw_gyeongje) \/ Includes(name, Kw_gdp)
       \/ Includes(name, Kw_gyeongjeseongjang) THEN Ty_economic
    ELSE IF Includes(name, Kw_ingu) \/ Includes(name, Kw_population)
        THEN Ty_population
    ELSE IF Includes(name, Kw_nodong) \/ Includes(name, Kw_goyong)
            \/ Includes(name, Kw_chwieop) THEN Ty_labor
    ELSE IF Includes(name, Kw_saneop) \/ Includes(name, Kw_jejoeop)
        THEN Ty_industry
    ELSE IF Includes(name, Kw_gyoyuk) \/ Includes(name, Kw_hakgyo)
        THEN Ty_education
    ELSE IF Includes(name, Kw_uiryo) \/ Includes(name, Kw_bogeon)
            \/ Includes(name, Kw_geongang) THEN Ty_health
    ELSE IF Includes(name, Kw_hwangyeong) \/ Includes(name, Kw_oyeom)
        THEN Ty_environment
    ELSE IF Includes(name, Kw_jutaek) \/ Includes(name, Kw_budongsan)
        THEN Ty_housing
    ELSE IF Includes(name, Kw_sodeuk) \/ Includes(name, Kw_sobi)
            \/ Includes(name, Kw_gagye) THEN Ty_income
    ELSE IF Includes(name, Kw_mulga) \/ Includes(name, Kw_gagyeok)
        THEN Ty_prices
    ELSE Ty_general

determineDataType_EconomicFirst(statName) ==
    Classify_EconomicFirst(ToLowerCase(statName))

determineDataType(statName) == Classify(ToLowerCase(statName))

----------------------------------------------------------------------------
(* normalizeStatisticalData (utils.js).                                    *)

\* A decimal number: sign, integer part, digits of the fraction.
Value(neg, int, frac) == [nan |-> FALSE, neg |-> neg, int |-> int, frac |-> frac]
NotANumber == [nan |-> TRUE, neg |-> FALSE, int |-> 0, frac |-> <<>>]
Zero == Value(FALSE, 0, <<>>)

IsZero(x) == x.int = 0 /\ \A i \in 1..Len(x.frac) : x.frac[i] = "0"

\* parseFloat(string): leading white space, an optional sign, digits, an
\* optional point and digits; NaN when there is no digit.  (No exponent and
\* no Infinity among the strings of the model.)
FloatOf(neg, int, frac) ==
    IF int = <<>> /\ frac = <<>> THEN NotANumber
    ELSE Value(neg, DigitsValue(int, 10), frac)

\* rest: what follows the digits of the integer part.
FloatFraction(neg, int, rest) ==
    IF rest # <<>> /\ Head(rest) = "."
    THEN FloatOf(neg, int, SubSeq(Tail(rest), 1, DigitRun(Tail(rest), 10)))
    ELSE FloatOf(neg, int, <<>>)

FloatInteger(neg, s, k) ==
    FloatFraction(neg, SubSeq(s, 1, k), SubSeq(s, k + 1, Len(s)))

FloatUnsigned(neg, s) == FloatInteger(neg, s, DigitRun(s, 10))

FloatSigned(s) ==
    IF s # <<>> /\ Head(s) \in {"-", "+"}
    THEN FloatUnsigned(Head(s) = "-", Tail(s))
    ELSE FloatUnsigned(FALSE, s)

ParseFloatString(str) == FloatSigned(TrimStart(str))

ParseFloat(v) ==
    CASE v.t = "number" -> Value(v.n < 0, IF v.n < 0 THEN 0 - v.n ELSE v.n, <<>>)
      [] v.t = "string" -> ParseFloatString(v.s)
      [] OTHER -> NotANumber

\* x || 0
OrZero(x) == IF x.nan \/ IsZero(x) THEN Zero ELSE x

\* parseFloat(item.DT) || 0
ParseFloatOrZero(v) == OrZero(ParseFloat(v))

\* One element of the payload: null, or an object with the provider's fields.
Item(tblNm, dt, unitNm, prdDe, c1Nm, c2Nm, itmNm) ==
    [nil |-> FALSE, TBL_NM |-> tblNm, DT |-> dt, UNIT_NM |-> unitNm,
     PRD_DE |-> prdDe, C1_NM |-> c1Nm, C2_NM |-> c2Nm, ITM_NM |-> itmNm]
NullItem ==
    [nil |-> TRUE, TBL_NM |-> Undef, DT |-> Undef, UNIT_NM |-> Undef,
     PRD_DE |-> Undef, C1_NM |-> Undef, C2_NM |-> Undef, ITM_NM |-> Undef]

Kw_jiyeok == <<"[ji]", "[yeok]">>

\* item.C1_NM && item.C1_NM.includes(...) ? item.C1_NM : 'Korea'
RegionOf(c1) ==
    IF Truthy(c1) /\ Includes(c1.s, Kw_jiyeok) THEN c1 ELSE Str(<<"Korea">>)

\* The callback for an object, statName being item.TBL_NM || 'Unknown
\* Statistic': includes throws on a truthy C1_NM that is no string,
\* toLowerCase on a statName that is no string.
NormalizeObject(item, statName, sourceTableId) ==
    IF Truthy(item.C1_NM) /\ item.C1_NM.t # "string"
    THEN Thrown(NotAFunction("item.C1_NM.includes"))
    ELSE IF statName.t # "string"
    THEN Thrown(NotAFunction("statName.toLowerCase"))
    ELSE Returned(
        [statName |-> statName,
         surveyDate |-> Or(item.PRD_DE, Str(<<"Unknown Period">>)),
         region |-> RegionOf(item.C1_NM),
         category1 |-> Or(Or(item.C1_NM, item.ITM_NM), Str(<<"General">>)),
         category2 |-> Or(item.C2_NM, Str(<<>>)),
         value |-> ParseFloatOrZero(item.DT),
         unit |-> Or(item.UNIT_NM, Str(<<>>)),
         sourceTableId |-> sourceTableId,
         dataType |-> determineDataType(statName.s),
         metadata |-> [tableTitle |-> statName, originalData |-> item]])

\* The body of the forEach callback for one item: the record it pushes, or
\* the TypeError it throws.
NormalizeItem(item, sourceTableId) ==
    IF item.nil
    THEN Thrown(<<"Cannot", "read", "properties", "of", "null",
                  "(reading", "'TBL_NM')">>)
    ELSE NormalizeObject(item, Or(item.TBL_NM, Str(<<"Unknown Statistic">>)),
                         sourceTableId)

\* rawData.forEach(...): the array as it stands when the loop ends or throws.
\* ForEachStep: r is what the callback did for the head of items.
RECURSIVE ForEachItem(_, _, _)
RECURSIVE ForEachStep(_, _, _, _)
ForEachStep(r, items, normalizedData, sourceTableId) ==
    IF r.threw
    THEN [threw |-> TRUE, message |-> r.message,
          normalizedData |-> normalizedData]
    ELSE ForEachItem(Tail(items), Append(normalizedData, r.value),
                     sourceTableId)

ForEachItem(items, normalizedData, sourceTableId) ==
    IF items = <<>>
    THEN [threw |-> FALSE, message |-> <<>>, normalizedData |-> normalizedData]
    ELSE ForEachStep(NormalizeItem(Head(items), sourceTableId), items,
                     normalizedData, sourceTableId)

\* The record pushed by the catch block.
ErrorDataPoint(message, rawItems, sourceTableId) ==
    [statName |-> Str(<<"Error Processing Data">>),
     surveyDate |-> Str(<<"Unknown Date">>),
     region |-> Str(<<"Korea">>),
     category1 |-> Str(<<"Error">>),
     category2 |-> Str(<<>>),
     value |-> Zero,
     unit |-> Str(<<>>),
     sourceTableId |-> sourceTableId,
     dataType |-> Ty_error,
     metadata |-> [error |-> message, rawData |-> rawItems]]

\* A payload: an array of items, or a lone value that is wrapped in an array.
Payload(isArray, items) == [isArray |-> isArray, items |-> items]

\* The catch block, had it started from an empty array.
Caught_Discard(r, rawItems, sourceTableId) ==
    IF r.threw THEN <<ErrorDataPoint(r.message, rawItems, sourceTableId)>>
    ELSE r.normalizedData

\* What is returned: the array, with the catch block's record when the loop
\* threw.
Caught(r, rawItems, sourceTableId) ==
    IF r.threw
    THEN Append(r.normalizedData,
                ErrorDataPoint(r.message, rawItems, sourceTableId))
    ELSE r.normalizedData

normalizeStatisticalData_Discard(rawData, metadata, sourceTableId) ==
    Caught_Discard(ForEachItem(rawData.items, <<>>, sourceTableId),
                   rawData.items, sourceTableId)

normalizeStatisticalData(rawData, metadata, sourceTableId) ==
    Caught(ForEachItem(rawData.items, <<>>, sourceTableId),
           rawData.items, sourceTableId)

----------------------------------------------------------------------------
(* The HTTP layer: handleApiError, getStatsList, getMetaInfo, getStatsData, *)
(* createKosisApiClient (utils.js).                                        *)

\* What apiClient.get does: it resolves with a response body, or rejects
\* with an error that carries a response (status and body), a request
\* without response, or only a message.
Resolved(kind, elems) ==
    [ok |-> TRUE, kind |-> kind, elems |-> elems, response |-> FALSE,
     status |-> <<>>, dataMessage |-> Undef, dataError |-> Undef,
     request |-> FALSE, message |-> <<>>]
Rejected(response, status, dataMessage, dataError, request, message) ==
    [ok |-> FALSE, kind |-> "none", elems |-> <<>>, response |-> response,
     status |-> status, dataMessage |-> dataMessage, dataError |-> dataError,
     request |-> request, message |-> message]

\* The Error thrown inside the try block of getStatsList and getStatsData:
\* it has neither response nor request.
InvalidFormat ==
    Rejected(FALSE, <<>>, Undef, Undef, FALSE,
             <<"Invalid", "response", "format", "from", "KOSIS", "API">>)

handleApiError_Untagged(err, context) ==
    IF err.response
    THEN <<"Status">> \o err.status \o <<"-">>
             \o Or(Or(err.dataMessage, err.dataError),
                   Str(<<"Unknown", "error">>)).s
    ELSE IF err.request
    THEN <<"No", "response", "received", "from", "server.">>
    ELSE err.message

handleApiError_NoContext(err, context) ==
    <<"KOSIS", "API", "Error:">>
        \o (IF err.response
            THEN <<"Status">> \o err.status \o <<"-">>
                     \o Or(Or(err.dataMessage, err.dataError),
                           Str(<<"Unknown", "API", "error">>)).s
            ELSE IF err.request
            THEN <<"No", "response", "received", "from", "server.">>
            ELSE err.message)

\* The message of the Error thrown by handleApiError(error, context).
handleApiError(err, context) ==
    <<"KOSIS", "API", "Error", "(">> \o context \o <<"):">>
        \o (IF err.response
            THEN <<"Status">> \o err.status \o <<"-">>
                     \o Or(Or(err.dataMessage, err.dataError),
                           Str(<<"Unknown", "API", "error">>)).s
            ELSE IF err.request
            THEN <<"No", "response", "received", "from", "server.">>
            ELSE err.message)

\* A body is truthy unless it is null, undefined or the empty string.
BodyTruthy(resp) ==
    ~(resp.kind \in {"null"} \/ (resp.kind = "string" /\ resp.elems = <<>>))

\* getStatsList: an array body is returned; so is any truthy body with a
\* length (a string: the orchestrator then takes its characters as tables).
getStatsList(resp) ==
    IF ~resp.ok THEN Thrown(handleApiError(resp, <<"getStatsList">>))
    ELSE IF BodyTruthy(resp) /\ resp.kind = "array" THEN Returned(resp.elems)
    ELSE IF BodyTruthy(resp) /\ resp.kind = "string" THEN Returned(resp.elems)
    ELSE Thrown(handleApiError(InvalidFormat, <<"getStatsList">>))

\* getStatsData: only an array body is returned.
StatsDataOf(resp, context) ==
    IF ~resp.ok THEN Thrown(handleApiError(resp, context))
    ELSE IF BodyTruthy(resp) /\ resp.kind = "array"
    THEN Returned(Payload(TRUE, resp.elems))
    ELSE Thrown(handleApiError(InvalidFormat, context))

getStatsData(resp, tableId) ==
    StatsDataOf(resp, <<"getStatsData", "for">> \o tableId.s)

\* getMetaInfo makes no request: it returns a placeholder.
getMetaInfo(statsDataId) ==
    [tableId |-> statsDataId,
     note |-> <<"Metadata", "retrieved", "from", "KOSIS", "API">>]
NoMetadata == [tableId |-> Null, note |-> <<>>]     \* let metadata = null

----------------------------------------------------------------------------
(* runDemoMode (main.js).                                                  *)

DemoRecord(statName, surveyDate, category1, category2, value, unit, id, dataType) ==
    [statName |-> Str(statName), surveyDate |-> Str(surveyDate),
     region |-> Str(<<"[jeon]", "[guk]">>), category1 |-> Str(category1),
     category2 |-> Str(category2), value |-> value, unit |-> Str(unit),
     sourceTableId |-> Str(<<id>>), dataType |-> dataType,
     metadata |-> [tableTitle |-> Str(statName),
                   note |-> <<"This", "is", "demo", "data", "for", "Korean",
                              "statistics">>]]

demoData ==
    << DemoRecord(<<"[in]", "[gu]", "[chong]", "[jo]", "[sa]", " ",
                    "[chong]", "[in]", "[gu]">>,
                  <<"2", "0", "2", "0", "[nyeon]">>,
                  <<"[chong]", "[in]", "[gu]">>, <<"[gye]">>,
                  Value(FALSE, 51829023, <<>>), <<"[myeong]">>,
                  "demo_001", Ty_population),
       DemoRecord(<<"[gyeong]", "[je]", "[hwal]", "[dong]", "[in]", "[gu]",
                    "[jo]", "[sa]", " ", "[chwi]", "[eop]", "[ja]", "[su]">>,
                  <<"2", "0", "2", "3", "[nyeon]", " ", "1", "2", "[wol]">>,
                  <<"[chwi]", "[eop]", "[ja]">>, <<"[jeon]", "[che]">>,
                  Value(FALSE, 28432000, <<>>), <<"[myeong]">>,
                  "demo_002", Ty_labor),
       DemoRecord(<<"[guk]", "[nae]", "[chong]", "[saeng]", "[san]", "(",
                    "G", "D", "P", ")">>,
                  <<"2", "0", "2", "3", "[nyeon]">>,
                  <<"[sil]", "[jil]", "G", "D", "P">>, <<"[yeon]", "[gan]">>,
                  Value(FALSE, 2080000, <<>>), <<"[sip]", "[eok]", "[won]">>,
                  "demo_003", Ty_economic),
       DemoRecord(<<"[so]", "[bi]", "[ja]", "[mul]", "[ga]", "[ji]", "[su]">>,
                  <<"2", "0", "2", "4", "[nyeon]", " ", "8", "[wol]">>,
                  <<"[chong]", "[ji]", "[su]">>,
                  <<"[jeon]", "[wol]", "[dae]", "[bi]">>,
                  Value(FALSE, 102, <<"3">>), <<"[ji]", "[su]">>,
                  "demo_004", Ty_prices) >>

Slice_Whole(seq, n) == seq

\* Array.prototype.slice(0, n) for n >= 0
Slice(seq, n) == SubSeq(seq, 1, Min(n, Len(seq)))

DemoMatches_NameOnly(item, keyword) ==
    Includes(ToLowerCase(item.statName.s), keyword)

DemoMatches(item, keyword) ==
    \/ Includes(ToLowerCase(item.statName.s), keyword)
    \/ Includes(ToLowerCase(item.category1.s), keyword)
    \/ Includes(ToLowerCase(item.dataType), keyword)

\* filteredData.filter(item => ...)
RECURSIVE DemoFilter(_, _)
DemoFilter(data, keyword) ==
    IF data = <<>> THEN <<>>
    ELSE IF DemoMatches(Head(data), keyword)
    THEN <<Head(data)>> \o DemoFilter(Tail(data), keyword)
    ELSE DemoFilter(Tail(data), keyword)

DemoFiltered(cfg) ==
    Slice(IF cfg.searchKeyword # <<>>
          THEN DemoFilter(demoData, ToLowerCase(cfg.searchKeyword))
          ELSE demoData,
          cfg.maxItems)

RegistrationInfo ==
    [url |-> <<"https://kosis.kr/openapi/index/index.jsp">>,
     note |-> <<"Register", "for", "KOSIS", "API", "access">>,
     warning |-> <<"KOSIS", "API", "key", "registration", "requires",
                   "Korean", "identity", "verification">>]

DemoSummary(cfg, count) ==
    [type |-> "demo_summary",
     message |-> <<"Demo", "mode", "completed.">>,
     demoDataPoints |-> count,
     searchCriteria |-> cfg,
     registrationInfo |-> RegistrationInfo]

DemoPushes_SummaryFirst(filteredData, cfg) ==
    <<DemoSummary(cfg, Len(filteredData))>> \o filteredData

\* The records runDemoMode pushes, in order.
DemoPushes(filteredData, cfg) ==
    filteredData \o <<DemoSummary(cfg, Len(filteredData))>>

runDemoMode(cfg) == DemoPushes(DemoFiltered(cfg), cfg)

----------------------------------------------------------------------------
(* mainLogic (main.js): the records it pushes.                             *)

DigitAtom == <<"0", "1", "2", "3", "4", "5", "6", "7", "8", "9">>

\* `${n}` for n >= 0
RECURSIVE IntToString(_)
IntToString(n) ==
    IF n < 10 THEN <<DigitAtom[n + 1]>>
    ELSE IntToString(n \div 10) \o <<DigitAtom[(n % 10) + 1]>>

\* table.TBL_ID || table.LIST_ID || `table_${processedTables}`
TableIdOf(table, n) ==
    Or(Or(table.TBL_ID, table.LIST_ID), Str(<<"table_">> \o IntToString(n)))

\* table.TBL_NM || table.LIST_NM || 'Unknown Table'
TableTitleOf(table) ==
    Or(Or(table.TBL_NM, table.LIST_NM), Str(<<"Unknown Table">>))

buildSearchParams(cfg) ==
    [vwCd |-> Or(Str(cfg.vwCd), Str(<<"MT_ZTITLE">>)).s,
     parentId |-> Or(Str(cfg.parentId), Str(<<"A">>)).s,
     searchKeyword |-> IF cfg.searchKeyword # <<>>
                       THEN Str(cfg.searchKeyword) ELSE Undef]

NoDataRecord(cfg) ==
    [message |-> <<"No", "statistical", "tables", "found", "for", "the",
                   "given", "search", "criteria">>,
     searchParams |-> buildSearchParams(cfg)]

RawRecord(tableId, table, metadata, statsData) ==
    [type |-> "raw", tableId |-> tableId, tableInfo |-> table,
     metadata |-> metadata, rawData |-> statsData.items]

TableErrorRecord(tableId, tableTitle, message) ==
    [type |-> "error", tableId |-> tableId, tableTitle |-> tableTitle,
     error |-> message]

TopLevelErrorRecord_NoMessage(message, cfg) ==
    [type |-> "error", error |-> <<>>,
     message |-> <<"An", "error", "occurred", "while", "processing.",
                   "Falling", "back", "to", "demo", "mode.">>,
     input |-> cfg]

TopLevelErrorRecord(message, cfg) ==
    [type |-> "error", error |-> message,
     message |-> <<"An", "error", "occurred", "while", "processing.",
                   "Falling", "back", "to", "demo", "mode.">>,
     input |-> cfg]

SummaryRecord(tables, points, cfg) ==
    [type |-> "summary", tablesProcessed |-> tables,
     totalDataPoints |-> points, searchCriteria |-> cfg]

\* process.env.KOSIS_API_KEY || await Actor.getValue('KOSIS_API_KEY')
LookupKey_Default(env, store) == TRUE
LookupKey(env, store) == env \/ store

\* statsList.length === 0
NoTables_Never(statsList) == FALSE
NoTables(statsList) == Len(statsList) = 0

\* error.message.includes('403') || ...('401') || ...('API')
IsAuthFailure_StatusOnly(message) ==
    Includes(message, <<"403">>) \/ Includes(message, <<"401">>)
IsAuthFailure_Never(message) == FALSE

IsAuthFailure(message) ==
    \/ Includes(message, <<"403">>)
    \/ Includes(message, <<"401">>)
    \/ Includes(message, <<"API">>)

\* The argument of sleep(validatedInput.delayBetweenRequests)
SleepArg_Default(cfg) == 1000
SleepArg(cfg) == cfg.delayBetweenRequests

WantsRaw(cfg) == cfg.outputFormat \in {<<"raw">>, <<"both">>}
WantsStructured_Always(cfg) == TRUE
WantsStructured(cfg) == cfg.outputFormat \in {<<"structured">>, <<"both">>}

\* The records pushed while one table is processed, given what getStatsData
\* did: the raw record and the normalized data points, or the error record
\* of the per-table catch.
TableRecords_SilentCatch(cfg, table, tableId, metadata, fetched, normalizedData) ==
    IF fetched.threw THEN <<>>
    ELSE (IF WantsRaw(cfg)
          THEN <<RawRecord(tableId, table, metadata, fetched.value)>>
          ELSE <<>>)
         \o normalizedData

TableRecords(cfg, table, tableId, metadata, fetched, normalizedData) ==
    IF fetched.threw
    THEN <<TableErrorRecord(tableId, TableTitleOf(table), fetched.message)>>
    ELSE (IF WantsRaw(cfg)
          THEN <<RawRecord(tableId, table, metadata, fetched.value)>>
          ELSE <<>>)
         \o normalizedData

\* normalizeStatisticalData is called when the fetch succeeded and the
\* output format includes structured.
NormalizedOf(cfg, fetched, metadata, tableId) ==
    IF ~fetched.threw /\ WantsStructured(cfg)
    THEN normalizeStatisticalData(fetched.value, metadata, tableId)
    ELSE <<>>

----------------------------------------------------------------------------
(* The inputs and the collaborators' answers the model draws from.         *)

EmptyInput ==
    [searchKeyword |-> Undef, vwCd |-> Undef, parentId |-> Undef,
     maxItems |-> Undef, includeMetadata |-> Undef, outputFormat |-> Undef,
     delayBetweenRequests |-> Undef]

\* The inputs of the runs.
RunInputs ==
    { [EmptyInput EXCEPT !.maxItems = m, !.outputFormat = f,
                         !.includeMetadata = t[1], !.searchKeyword = t[2],
                         !.delayBetweenRequests = t[3]] :
        m \in {Undef, Num(1), Str(<<"2">>)},
        f \in {Undef, Str(<<"raw">>), Str(<<"both">>)},
        t \in { <<Undef, Undef, Undef>>,
                <<Bool(FALSE), Str(<<" ", "G", "D", "P">>), Num(1500)>>,
                <<Undef, Str(<<"[in]", "[gu]">>), Num(100)>>,
                <<Undef, Num(7), Undef>> } }

\* The i-th table descriptor of the provider's list: descriptors come with a
\* TBL_ID, with a LIST_ID only, or with neither.
Descriptor(i) ==
    [TBL_ID |-> IF i % 3 = 1 THEN Str(<<"DT_">> \o IntToString(i)) ELSE Undef,
     LIST_ID |-> IF i % 3 = 2 THEN Str(<<"L">> \o IntToString(i)) ELSE Undef,
     TBL_NM |-> IF i % 3 = 1 THEN Str(<<"[in]", "[gu]">>) ELSE Undef,
     LIST_NM |-> IF i % 3 = 2 THEN Str(<<"[mul]", "[ga]">>) ELSE Undef,
     ORG_ID |-> Undef]

\* One character of a string body: it has none of the descriptor's fields.
CharOfBody ==
    [TBL_ID |-> Undef, LIST_ID |-> Undef, TBL_NM |-> Undef,
     LIST_NM |-> Undef, ORG_ID |-> Undef]

\* What the listing endpoint may answer.
ListResponses ==
    { Resolved("array", [i \in 1..n |-> Descriptor(i)]) : n \in 0..MaxTables }
    \cup { Resolved("string", <<CharOfBody, CharOfBody>>),
           Resolved("string", <<>>),
           Resolved("object", <<>>),
           Rejected(TRUE, <<"401">>, Str(<<"Unauthorized">>), Undef, TRUE, <<>>),
           Rejected(TRUE, <<"500">>, Undef, Undef, TRUE, <<>>),
           Rejected(FALSE, <<>>, Undef, Undef, TRUE, <<>>),
           Rejected(FALSE, <<>>, Undef, Undef, FALSE, <<"Network", "Error">>) }

GoodItem ==
    Item(Str(<<"[chong]", "[in]", "[gu]">>), Str(<<"1", "2", ".", "5">>),
         Str(<<"[myeong]">>), Str(<<"2", "0", "2", "0">>),
         Str(<<"[ji]", "[yeok]", "1">>), Str(<<"[gye]">>), Str(<<"T1">>))

\* What the data endpoint may answer for one table.
DataResponses ==
    { Resolved("array", <<>>),
      Resolved("array", <<GoodItem, NullItem>>),
      Resolved("object", <<>>),
      Rejected(TRUE, <<"401">>, Undef, Str(<<"Unauthorized">>), TRUE, <<>>) }

\* How renderChart may end: it returns, or it throws (openCanvas is not a
\* method of the SDK's Actor; storing the image may be refused).
ChartOutcomes ==
    { Returned(Undef),
      Thrown(NotAFunction("Actor.openCanvas")),
      Thrown(<<"Request", "failed", "with", "status", "code", "403">>) }

NoCalls ==
    [getValue |-> 0, createKosisApiClient |-> 0, getStatsList |-> 0,
     getMetaInfo |-> <<>>, getStatsData |-> <<>>, sleep |-> <<>>,
     renderChart |-> 0]

----------------------------------------------------------------------------
(* mainLogic (main.js): the run.                                           *)

Init ==
    /\ pc = "start"
    /\ input \in RunInputs
    /\ envKey \in BOOLEAN
    /\ storeKey \in BOOLEAN
    /\ validatedInput = Undef
    /\ kosisApiKey = FALSE
    /\ tablesToProcess = <<>>
    /\ listed = <<>>
    /\ processedTables = 0
    /\ totalDataPoints = 0
    /\ allNormalizedData = <<>>
    /\ error = <<>>
    /\ sink = <<>>
    /\ calls = NoCalls
    /\ history = <<>>
    /\ arg = Undef
    /\ ret = Undef

\* validateInput(input || {}): outside every try block, so a throw rejects
\* mainLogic's promise.
Validated(r) ==
    IF r.threw
    THEN /\ pc' = "rejected"
         /\ error' = r.message
         /\ UNCHANGED validatedInput
    ELSE /\ pc' = "validated"
         /\ validatedInput' = r.value
         /\ UNCHANGED error

Validate ==
    /\ pc = "start"
    /\ Validated(validateInput(input))
    /\ UNCHANGED <<input, envKey, storeKey, kosisApiKey, tablesToProcess,
                   listed, processedTables, totalDataPoints,
                   allNormalizedData, sink, calls, history, arg, ret>>

GetCredential ==
    /\ pc = "validated"
    /\ kosisApiKey' = LookupKey(envKey, storeKey)
    /\ calls' = [calls EXCEPT !.getValue = IF envKey THEN @ ELSE @ + 1]
    /\ pc' = IF kosisApiKey' THEN "listing" ELSE "demo"
    /\ UNCHANGED <<input, validatedInput, envKey, storeKey, tablesToProcess,
                   listed, processedTables, totalDataPoints,
                   allNormalizedData, error, sink, history, arg, ret>>

\* if (!kosisApiKey) { await runDemoMode(validatedInput); return; }
DemoMode ==
    /\ pc = "demo"
    /\ sink' = sink \o runDemoMode(validatedInput)
    /\ pc' = "done"
    /\ UNCHANGED <<input, validatedInput, envKey, storeKey, kosisApiKey,
                   tablesToProcess, listed, processedTables, totalDataPoints,
                   allNormalizedData, error, calls, history, arg, ret>>

\* After getStatsList settled with r: the top-level catch, the no-data
\* return, or the slice and the loop.
Listed(r) ==
    IF r.threw
    THEN /\ error' = r.message
         /\ pc' = "catch"
         /\ UNCHANGED <<listed, tablesToProcess, sink>>
    ELSE IF NoTables(r.value)
    THEN /\ sink' = Append(sink, NoDataRecord(validatedInput))
         /\ pc' = "done"
         /\ listed' = r.value
         /\ UNCHANGED <<error, tablesToProcess>>
    ELSE /\ listed' = r.value
         /\ tablesToProcess' = Slice(r.value, validatedInput.maxItems)
         /\ pc' = IF Len(tablesToProcess') > 0 THEN "loop" ELSE "summary"
         /\ UNCHANGED <<error, sink>>

\* createKosisApiClient, getStatsList, the no-data return and the slice.
ListTables(resp) ==
    /\ pc = "listing"
    /\ calls' = [calls EXCEPT !.createKosisApiClient = @ + 1,
                              !.getStatsList = @ + 1]
    /\ Listed(getStatsList(resp))
    /\ UNCHANGED <<input, validatedInput, envKey, storeKey, kosisApiKey,
                   processedTables, totalDataPoints, allNormalizedData,
                   history, arg, ret>>

\* The end of an iteration: what was pushed and counted, the delay after a
\* success, and where the run goes next.
Processed(n, table, tableId, metadata, fetched, normalizedData) ==
    /\ processedTables' = n
    /\ calls' = [calls EXCEPT
           !.getMetaInfo = IF validatedInput.includeMetadata
                           THEN Append(@, tableId) ELSE @,
           !.getStatsData = Append(@, tableId),
           !.sleep = IF fetched.threw THEN @
                     ELSE Append(@, SleepArg(validatedInput))]
    /\ sink' = sink \o TableRecords(validatedInput, table, tableId, metadata,
                                    fetched, normalizedData)
    /\ allNormalizedData' = allNormalizedData \o normalizedData
    /\ totalDataPoints' = totalDataPoints + Len(normalizedData)
    /\ history' = Append(history,
           [tableId |-> tableId, fetched |-> ~fetched.threw,
            message |-> fetched.message,
            rows |-> IF fetched.threw THEN <<>> ELSE fetched.value.items,
            dataPoints |-> Len(normalizedData)])
    /\ pc' = IF n < Len(tablesToProcess) THEN "loop"
             ELSE IF Len(allNormalizedData') > 0 THEN "chart"
             ELSE "summary"

\* The iteration once getStatsData settled with fetched.
Fetched(n, table, tableId, metadata, fetched) ==
    Processed(n, table, tableId, metadata, fetched,
              NormalizedOf(validatedInput, fetched, metadata, tableId))

\* The iteration for the table with identifier tableId.
Identified(resp, n, table, tableId) ==
    Fetched(n, table, tableId,
            IF validatedInput.includeMetadata
            THEN getMetaInfo(tableId) ELSE NoMetadata,
            getStatsData(resp, tableId))

\* One iteration of the for loop over tablesToProcess.
ProcessTable(resp) ==
    /\ pc = "loop"
    /\ processedTables < Len(tablesToProcess)
    /\ Identified(resp, processedTables + 1,
                  tablesToProcess[processedTables + 1],
                  TableIdOf(tablesToProcess[processedTables + 1],
                            processedTables + 1))
    /\ UNCHANGED <<input, validatedInput, envKey, storeKey, kosisApiKey,
                   tablesToProcess, listed, error, arg, ret>>

\* if (allNormalizedData.length > 0) await renderChart(allNormalizedData)
RenderChart(outcome) ==
    /\ pc = "chart"
    /\ calls' = [calls EXCEPT !.renderChart = @ + 1]
    /\ IF outcome.threw
       THEN error' = outcome.message /\ pc' = "catch"
       ELSE pc' = "summary" /\ UNCHANGED error
    /\ UNCHANGED <<input, validatedInput, envKey, storeKey, kosisApiKey,
                   tablesToProcess, listed, processedTables, totalDataPoints,
                   allNormalizedData, sink, history, arg, ret>>

Summarize ==
    /\ pc = "summary"
    /\ sink' = Append(sink, SummaryRecord(processedTables, totalDataPoints,
                                          validatedInput))
    /\ pc' = "done"
    /\ UNCHANGED <<input, validatedInput, envKey, storeKey, kosisApiKey,
                   tablesToProcess, listed, processedTables, totalDataPoints,
                   allNormalizedData, error, calls, history, arg, ret>>

\* The top-level catch block.
TopLevelCatch ==
    /\ pc = "catch"
    /\ sink' = IF IsAuthFailure(error)
               THEN sink \o runDemoMode(validatedInput)
               ELSE Append(sink, TopLevelErrorRecord(error, validatedInput))
                    \o runDemoMode(validatedInput)
    /\ pc' = "done"
    /\ UNCHANGED <<input, validatedInput, envKey, storeKey, kosisApiKey,
                   tablesToProcess, listed, processedTables, totalDataPoints,
                   allNormalizedData, error, calls, history, arg, ret>>

Next ==
    \/ Validate
    \/ GetCredential
    \/ DemoMode
    \/ \E resp \in ListResponses : ListTables(resp)
    \/ \E resp \in DataResponses : ProcessTable(resp)
    \/ \E outcome \in ChartOutcomes : RenderChart(outcome)
    \/ Summarize
    \/ TopLevelCatch

Spec == Init /\ [][Next]_vars

----------------------------------------------------------------------------
(* The utilities called on their own, over bounded sets of arguments.      *)

\* The strings of at most n atoms over an alphabet.
Extended(strings, alphabet) ==
    strings \cup {Append(s, c) : s \in strings, c \in alphabet}

RECURSIVE StringsOver(_, _)
StringsOver(alphabet, n) ==
    IF n = 0 THEN {<<>>}
    ELSE Extended(StringsOver(alphabet, n - 1), alphabet)

\* The values drawn for each key of the input object.
FieldValues ==
    [searchKeyword |->
        {Undef, Null, Num(7), Bool(TRUE)}
            \cup {Str(s) : s \in StringsOver({" ", "a"}, MaxStrLen)},
     vwCd |->
        {Undef, Str(<<"MT_OTITLE">>), Str(<<" ", "MT_OTITLE", " ">>),
         Str(<<" ">>), Num(3)},
     parentId |-> {Undef, Null, Str(<<"B", " ">>), Bool(FALSE)},
     maxItems |->
        {Undef, Null, Bool(TRUE)}
            \cup {Num(n) : n \in {0 - 1, 0, 1, 5, 100, 101, 200}}
            \cup {Str(s) : s \in StringsOver({"0", "2", "-", " ", "x"}, MaxStrLen)},
     includeMetadata |->
        {Undef, Null, Bool(TRUE), Bool(FALSE), Num(0), Str(<<"false">>)},
     outputFormat |->
        {Undef, Str(<<"structured">>), Str(<<"raw">>), Str(<<"both">>),
         Str(<<"invalid">>), Str(<<"raw", " ">>), Num(1)},
     delayBetweenRequests |->
        {Undef, Null}
            \cup {Num(n) : n \in {0 - 1, 0, 100, 499, 500, 501, 1500}}
            \cup {Str(s) : s \in StringsOver({"0", "5", " "}, MaxStrLen)}]

\* The fragments statistic names are built from: every keyword of the
\* classifier, keywords in capitals, and text that is no keyword.
Fragments ==
    {Kw_ingu, Kw_population, Kw_gyeongje, Kw_gdp, Kw_gyeongjeseongjang,
     Kw_nodong, Kw_goyong, Kw_chwieop, Kw_saneop, Kw_jejoeop, Kw_gyoyuk,
     Kw_hakgyo, Kw_uiryo, Kw_bogeon, Kw_geongang, Kw_hwangyeong, Kw_oyeom,
     Kw_jutaek, Kw_budongsan, Kw_sodeuk, Kw_sobi, Kw_gagye, Kw_mulga,
     Kw_gagyeok,
     <<"G", "D", "P">>, <<"P", "o", "p", "u", "l", "a", "t", "i", "o", "n">>,
     <<"[so]">>, <<"[bi]">>, <<"[jo]", "[sa]">>, <<" ">>, <<"g", "d">>}

\* The names of at most n fragments.
Lengthened(names) == names \cup {s \o f : s \in names, f \in Fragments}

RECURSIVE NamesOf(_)
NamesOf(n) == IF n = 0 THEN {<<>>} ELSE Lengthened(NamesOf(n - 1))

\* The items payloads are built from.
Items ==
    {GoodItem,
     NullItem,
     Item(Undef, Undef, Undef, Undef, Undef, Undef, Undef),
     Item(Str(<<"G", "D", "P">>), Str(<<"x">>), Undef, Undef, Undef,
          Str(<<"[gye]">>), Str(<<"T1">>)),
     Item(Str(<<"[mul]", "[ga]">>), Num(7), Undef, Undef, Num(7), Undef, Undef),
     Item(Num(3), Str(<<"0", ".", "0">>), Undef, Undef, Str(<<"[jeon]", "[guk]">>),
          Undef, Undef)}

WithOneMore(seqs) == seqs \cup {Append(s, i) : s \in seqs, i \in Items}

RECURSIVE ItemSeqs(_)
ItemSeqs(n) == IF n = 0 THEN {<<>>} ELSE WithOneMore(ItemSeqs(n - 1))

\* The payloads: arrays of at most MaxRows items, and lone items.
Payloads ==
    {Payload(TRUE, items) : items \in ItemSeqs(MaxRows)}
        \cup {Payload(FALSE, <<i>>) : i \in Items}

\* The variables of the run, at rest while a utility is called on its own.
RunAtRest ==
    /\ input = EmptyInput
    /\ envKey = FALSE
    /\ storeKey = FALSE
    /\ validatedInput = Undef
    /\ kosisApiKey = FALSE
    /\ tablesToProcess = <<>>
    /\ listed = <<>>
    /\ processedTables = 0
    /\ totalDataPoints = 0
    /\ allNormalizedData = <<>>
    /\ error = <<>>
    /\ sink = <<>>
    /\ calls = NoCalls
    /\ history = <<>>

\* validateInput(arg) for every input object with values for two of the
\* keys, the other keys absent.
InitValidate ==
    /\ pc = "validateInput"
    /\ \E f \in DOMAIN FieldValues, g \in DOMAIN FieldValues :
          \E v \in FieldValues[f], w \in FieldValues[g] :
              arg = [EmptyInput EXCEPT ![f] = v, ![g] = w]
    /\ ret = Undef
    /\ RunAtRest

CallValidateInput ==
    /\ pc = "validateInput"
    /\ ret' = validateInput(arg)
    /\ pc' = "validateInput returned"
    /\ UNCHANGED <<arg, runVars>>

NextValidate == CallValidateInput

SpecValidate == InitValidate /\ [][NextValidate]_vars

\* determineDataType(arg) for every name of at most MaxFrags fragments.
InitClassify ==
    /\ pc = "determineDataType"
    /\ arg \in NamesOf(MaxFrags)
    /\ ret = Undef
    /\ RunAtRest

CallDetermineDataType ==
    /\ pc = "determineDataType"
    /\ ret' = determineDataType(arg)
    /\ pc' = "determineDataType returned"
    /\ UNCHANGED <<arg, runVars>>

NextClassify == CallDetermineDataType

SpecClassify == InitClassify /\ [][NextClassify]_vars

\* normalizeStatisticalData(arg, null, 'DT_1') for every payload.
InitNormalize ==
    /\ pc = "normalizeStatisticalData"
    /\ arg \in Payloads
    /\ ret = Undef
    /\ RunAtRest

CallNormalize ==
    /\ pc = "normalizeStatisticalData"
    /\ ret' = normalizeStatisticalData(arg, NoMetadata, Str(<<"DT_1">>))
    /\ pc' = "normalizeStatisticalData returned"
    /\ UNCHANGED <<arg, runVars>>

NextNormalize == CallNormalize

SpecNormalize == InitNormalize /\ [][NextNormalize]_vars

\* The inputs whose Configurations runDemoMode is called with: keywords in
\* either case, padded, matching names, categories, data types or nothing,
\* and maxItems below, at and above the size of the pool.
DemoKeywords ==
    {Undef, Str(<<>>), Str(<<" ">>),
     Str(<<"G", "D", "P">>), Str(<<"g", "d", "p">>),
     Str(<<" ", "G", "d", "P", " ">>), Str(<<"[in]", "[gu]">>),
     Str(<<"[chong]">>), Str(<<"[ji]", "[su]">>), Str(<<"[su]">>),
     Str(<<"[jo]", "[sa]">>), Str(<<"[jeon]", "[guk]">>),
     Str(<<"L", "A", "B">>), Str(<<"O">>), Str(<<"p">>), Str(<<"a">>),
     Str(<<"i", "c">>), Str(<<"e", "c", "o">>), Str(<<"x">>),
     Str(<<"demo_001">>)}

DemoInputs ==
    { [EmptyInput EXCEPT !.searchKeyword = k, !.maxItems = m] :
        k \in DemoKeywords,
        m \in {Undef, Num(1), Num(2), Num(3), Str(<<"4">>), Num(200)} }

\* runDemoMode(arg) for the Configuration of every such input.
InitDemo ==
    /\ pc = "runDemoMode"
    /\ \E inp \in DemoInputs : arg = validateInput(inp).value
    /\ ret = Undef
    /\ RunAtRest

CallRunDemoMode ==
    /\ pc = "runDemoMode"
    /\ ret' = runDemoMode(arg)
    /\ pc' = "runDemoMode returned"
    /\ UNCHANGED <<arg, runVars>>

NextDemo == CallRunDemoMode

SpecDemo == InitDemo /\ [][NextDemo]_vars

\* What the HTTP client may do with one request: resolve with a body (an
\* array, a string, an object without length, null), or reject with an
\* error response, without response, or before the request was made.
ProviderMessages ==
    { <<Undef, Undef>>,
      <<Str(<<"Unauthorized">>), Undef>>,
      <<Undef, Str(<<"Forbidden">>)>>,
      <<Str(<<"Too", "many", "requests">>), Str(<<"Forbidden">>)>>,
      <<Str(<<>>), Str(<<"Forbidden">>)>> }

HttpRejections ==
    { Rejected(TRUE, <<status>>, m[1], m[2], TRUE,
               <<"Request", "failed", "with", "status", "code", status>>) :
        status \in {"400", "401", "403", "404", "429", "500"},
        m \in ProviderMessages }
    \cup { Rejected(FALSE, <<>>, Undef, Undef, TRUE, message) :
             message \in { <<"timeout", "of", "30000ms", "exceeded">>,
                           <<"Network", "Error">> } }
    \cup { Rejected(FALSE, <<>>, Undef, Undef, FALSE, message) :
             message \in { <<"Network", "Error">>, <<"Invalid", "URL">>,
                           <<>> } }

HttpBodies(elems) ==
    { Resolved("array", Slice(elems, n)) : n \in 0..Len(elems) }
    \cup { Resolved("string", <<CharOfBody, CharOfBody>>),
           Resolved("string", <<>>),
           Resolved("object", <<>>),
           Resolved("null", <<>>) }

HttpCalls ==
    { [op |-> "getStatsList", tableId |-> Undef, resp |-> r] :
        r \in HttpRejections
              \cup HttpBodies([i \in 1..MaxTables |-> Descriptor(i)]) }
    \cup { [op |-> "getStatsData", tableId |-> t, resp |-> r] :
             t \in {Str(<<"DT_1">>), Str(<<"table_3">>)},
             r \in HttpRejections \cup HttpBodies(<<GoodItem, NullItem>>) }

\* getStatsList and getStatsData called on their own, for every such answer
\* of the HTTP client.
InitHttp ==
    /\ pc = "http"
    /\ arg \in HttpCalls
    /\ ret = Undef
    /\ RunAtRest

CallGetStatsList ==
    /\ pc = "http"
    /\ arg.op = "getStatsList"
    /\ ret' = getStatsList(arg.resp)
    /\ pc' = "http returned"
    /\ UNCHANGED <<arg, runVars>>

CallGetStatsData ==
    /\ pc = "http"
    /\ arg.op = "getStatsData"
    /\ ret' = getStatsData(arg.resp, arg.tableId)
    /\ pc' = "http returned"
    /\ UNCHANGED <<arg, runVars>>

NextHttp == CallGetStatsList \/ CallGetStatsData

SpecHttp == InitHttp /\ [][NextHttp]_vars

----------------------------------------------------------------------------
(* Reading the sink.                                                       *)

TypeOf(r) == IF "type" \in DOMAIN r THEN r.type ELSE "untagged"
IsDataPoint(r) == "statName" \in DOMAIN r
IsDemoRecord(r) == \E i \in DOMAIN demoData : r = demoData[i]
IsNoData(r) == "searchParams" \in DOMAIN r /\ "message" \in DOMAIN r
IsTableError(r, tableId) ==
    TypeOf(r) = "error" /\ "tableId" \in DOMAIN r /\ r.tableId = tableId
IsRawOf(r, tableId) == TypeOf(r) = "raw" /\ r.tableId = tableId
IsDataPointOf(r, tableId) == IsDataPoint(r) /\ r.sourceTableId = tableId
Positions(P(_)) == {i \in DOMAIN sink : P(sink[i])}
IsOfType(t) == {i \in DOMAIN sink : TypeOf(sink[i]) = t}

\* The sink holds demo records followed by one demo_summary, nothing else.
DemoOutput ==
    /\ Len(sink) >= 1
    /\ TypeOf(sink[Len(sink)]) = "demo_summary"
    /\ \A i \in 1..(Len(sink) - 1) : IsDemoRecord(sink[i])

\* getStatsList was called and rejected (the chart is the only other source
\* of a top-level error, and it runs after a successful listing).
ListerRejected ==
    calls.getStatsList = 1 /\ error # <<>> /\ calls.renderChart = 0
        /\ pc \in {"catch", "done"}

----------------------------------------------------------------------------
(* The claims.                                                             *)

C2_AuthFailureRun ==
    (pc = "done" /\ kosisApiKey /\ ListerRejected
        /\ \E needle \in {<<"401">>, <<"403">>, <<"API">>} :
              Includes(error, needle)) =>
        /\ DemoOutput
        /\ IsOfType("error") = {}
        /\ IsOfType("summary") = {}
        /\ Cardinality(IsOfType("demo_summary")) = 1
        /\ calls.getStatsData = <<>>

C2_Witness ==
    /\ pc = "done" /\ kosisApiKey /\ ListerRejected
    /\ Includes(error, <<"401">>)
    /\ Cardinality(IsOfType("demo_summary")) = 1

\* C3: a table whose data fetch raised has exactly one error-tagged record
\* and no raw or structured record in the sink; a table whose fetch
\* succeeded has all its structured records there; once the loop is over
\* every one of the first maxItems tables has been processed; and the
\* top-level catch (hence Demo Fallback) is never entered from the loop.
C3_PerTableIsolation ==
    /\ \A i \in DOMAIN history :
        LET t == history[i].tableId
            ErrorOfT(r) == IsTableError(r, t)
            RawOfT(r) == IsRawOf(r, t)
            PointOfT(r) == IsDataPointOf(r, t)
        IN  IF history[i].fetched
            THEN /\ Positions(ErrorOfT) = {}
                 /\ Cardinality(Positions(PointOfT)) = history[i].dataPoints
            ELSE /\ Cardinality(Positions(ErrorOfT)) = 1
                 /\ Positions(RawOfT) = {}
                 /\ Positions(PointOfT) = {}
    /\ (Len(listed) > 0 /\ pc # "loop") =>
            Len(history) = Min(Len(listed), validatedInput.maxItems)
    /\ (Len(listed) > 0 /\ pc = "catch") => calls.renderChart = 1
    /\ (Len(listed) > 0 /\ IsOfType("demo_summary") # {}) =>
            calls.renderChart = 1

C3_Witness ==
    /\ pc = "done"
    /\ Len(history) >= 2
    /\ ~history[1].fetched
    /\ history[2].fetched /\ history[2].dataPoints > 0
    /\ TypeOf(sink[1]) = "error"
    /\ TypeOf(sink[Len(sink)]) = "summary"

\* C4: every run that has ended has reached Done and has emitted at least
\* one record.
C4_EveryRunEndsWithOutput ==
    pc \in {"done", "rejected"} => (pc = "done" /\ Len(sink) >= 1)

\* C5: with a credential, when the Table Lister returns an empty sequence,
\* the Lister has been called once, the run has emitted exactly one record,
\* the no-data message, and nothing else has run: no metadata or data fetch,
\* no delay, no chart, no demo record, no summary.
C5_EmptyList ==
    (pc = "done" /\ kosisApiKey /\ error = <<>> /\ listed = <<>>) =>
        /\ calls.getStatsList = 1
        /\ Len(sink) = 1
        /\ IsNoData(sink[1])
        /\ TypeOf(sink[1]) \notin {"summary", "demo_summary", "error", "raw"}
        /\ calls.getMetaInfo = <<>>
        /\ calls.getStatsData = <<>>
        /\ calls.sleep = <<>>
        /\ calls.renderChart = 0
        /\ processedTables = 0

C5_Witness ==
    /\ pc = "done" /\ kosisApiKey /\ error = <<>> /\ listed = <<>>
    /\ Len(sink) = 1 /\ IsNoData(sink[1])

\* C6: when the Table Lister returned exactly one table and its processing
\* succeeded, the delay has been invoked exactly once, with the delay of the
\* Configuration.
C6_RateLimiting ==
    (Len(listed) = 1 /\ Len(history) = 1 /\ history[1].fetched) =>
        calls.sleep = <<validatedInput.delayBetweenRequests>>

C6_Witness ==
    /\ pc = "done"
    /\ Len(listed) = 1 /\ Len(history) = 1 /\ history[1].fetched
    /\ input.delayBetweenRequests = Num(1500)
    /\ calls.sleep = <<1500>>

\* C7: whenever validateInput returns, maxItems is in 1..100 (more than 100
\* gives 100; 0, absent or unparseable gives 10), outputFormat is one of
\* structured, raw, both (anything else gives structured), the delay is at
\* least 500 (1000 when absent), includeMetadata is a boolean (true when
\* absent) and searchKeyword has no white space at either end.
C7_ConfigurationWithinBounds ==
    (pc = "validateInput returned" /\ ~ret.threw) =>
        LET cfg == ret.value
            m == ParseInt(arg.maxItems)
        IN  /\ cfg.maxItems \in 1..100
            /\ (~m.nan /\ m.n > 100) => cfg.maxItems = 100
            /\ arg.maxItems \in {Str(<<"2", "0", "0">>), Num(200)}
                    => cfg.maxItems = 100
            /\ (m.nan \/ m.n = 0) => cfg.maxItems = 10
            /\ arg.maxItems \in {Undef, Num(0)} => cfg.maxItems = 10
            /\ cfg.outputFormat \in {<<"structured">>, <<"raw">>, <<"both">>}
            /\ arg.outputFormat \notin
                    {Str(<<"structured">>), Str(<<"raw">>), Str(<<"both">>)}
                    => cfg.outputFormat = <<"structured">>
            /\ cfg.delayBetweenRequests >= 500
            /\ arg.delayBetweenRequests = Undef
                    => cfg.delayBetweenRequests = 1000
            /\ cfg.includeMetadata \in BOOLEAN
            /\ arg.includeMetadata = Undef => cfg.includeMetadata = TRUE
            /\ cfg.searchKeyword # <<>> =>
                    /\ Head(cfg.searchKeyword) # " "
                    /\ cfg.searchKeyword[Len(cfg.searchKeyword)] # " "

C7_Witness ==
    /\ pc = "validateInput returned" /\ ~ret.threw
    /\ arg.maxItems = Str(<<"2", "0", "0">>)
    /\ arg.outputFormat = Str(<<"invalid">>)
    /\ ret.value.maxItems = 100
    /\ ret.value.outputFormat = <<"structured">>

\* C8: validateInput returns a Configuration for every input object; it
\* never raises.
C8_ValidatorNeverFails ==
    pc = "validateInput returned" => ~ret.threw

\* The first row of the payload whose normalization raises (0: none does).
FirstFailingRow(items) ==
    LET failing == {i \in DOMAIN items :
                        NormalizeItem(items[i], Str(<<"DT_1">>)).threw}
    IN  IF failing = {} THEN 0
        ELSE CHOOSE i \in failing : \A j \in failing : i <= j

IsSentinel(r, items) ==
    /\ r.dataType = Ty_error
    /\ r.value = Zero
    /\ r.metadata.error =
            NormalizeItem(items[FirstFailingRow(items)], Str(<<"DT_1">>)).message
    /\ r.metadata.rawData = items

CategoryOrder ==
    <<Ty_population, Ty_economic, Ty_labor, Ty_industry, Ty_education,
      Ty_health, Ty_environment, Ty_housing, Ty_income, Ty_prices>>
CategoryKeywords ==
    << {Kw_ingu, Kw_population},
       {Kw_gyeongje, Kw_gdp, Kw_gyeongjeseongjang},
       {Kw_nodong, Kw_goyong, Kw_chwieop},
       {Kw_saneop, Kw_jejoeop},
       {Kw_gyoyuk, Kw_hakgyo},
       {Kw_uiryo, Kw_bogeon, Kw_geongang},
       {Kw_hwangyeong, Kw_oyeom},
       {Kw_jutaek, Kw_budongsan},
       {Kw_sodeuk, Kw_sobi, Kw_gagye},
       {Kw_mulga, Kw_gagyeok} >>

\* The categories one of whose keywords occurs in the name, case ignored.
CategoriesIn(name) ==
    {i \in DOMAIN CategoryOrder :
        \E k \in CategoryKeywords[i] : Includes(ToLowerCase(name), k)}

\* C10: the data type of a name is the first category, in the order
\* population, economic, labor, industry, education, health, environment,
\* housing, income, prices, one of whose keywords occurs in the name with
\* case ignored, and "general" when none occurs.
C10_FirstMatchInOrder ==
    pc = "determineDataType returned" =>
        LET hits == CategoriesIn(arg)
        IN  IF hits = {} THEN ret = Ty_general
            ELSE /\ ret = CategoryOrder[CHOOSE i \in hits : \A j \in hits : i <= j]
                 /\ \A j \in DOMAIN CategoryOrder :
                        ret = CategoryOrder[j] => \A h \in hits : j <= h

C10_Witness ==
    /\ pc = "determineDataType returned"
    /\ Cardinality(CategoriesIn(arg)) >= 2
    /\ arg # ToLowerCase(arg)
    /\ Includes(arg, <<"G", "D", "P">>)
    /\ ret = Ty_population

\* The positions of the pool whose name, category or data type contains the
\* keyword, case ignored; every position when there is no keyword.
PoolMatching(keyword) ==
    IF keyword = <<>> THEN DOMAIN demoData
    ELSE {i \in DOMAIN demoData :
            \E text \in {demoData[i].statName.s, demoData[i].category1.s,
                         demoData[i].dataType} :
                Includes(ToLowerCase(text), ToLowerCase(keyword))}

\* The i-th smallest element of a set of numbers.
NthOf(S, i) == CHOOSE j \in S : Cardinality({k \in S : k < j}) = i - 1

\* C11: for every Configuration, the demo records emitted by Demo Fallback
\* are the records of the pool whose name, category or data type contains
\* searchKeyword with case ignored (the whole pool without keyword), in pool
\* order, cut to the first maxItems; one demo_summary follows them, and its
\* count is the number of demo records emitted.
C11_DemoFiltering ==
    pc = "runDemoMode returned" =>
        /\ Len(ret) = Min(Cardinality(PoolMatching(arg.searchKeyword)),
                          arg.maxItems) + 1
        /\ \A i \in 1..(Len(ret) - 1) :
            /\ ret[i] = demoData[NthOf(PoolMatching(arg.searchKeyword), i)]
            /\ TypeOf(ret[i]) # "demo_summary"
        /\ TypeOf(ret[Len(ret)]) = "demo_summary"
        /\ ret[Len(ret)].demoDataPoints = Len(ret) - 1

C11_Witness ==
    /\ pc = "runDemoMode returned"
    /\ arg.searchKeyword = <<"O">> /\ arg.maxItems = 2
    /\ Cardinality(PoolMatching(arg.searchKeyword)) = 3
    /\ Len(ret) = 3
    /\ ret[1] = demoData[1] /\ ret[2] = demoData[2]
    /\ ret[3].demoDataPoints = 2

\* The tag of an operation: its name, with the table id for the fetcher.
TagOf(call) ==
    IF call.op = "getStatsList" THEN <<"(", "getStatsList", "):">>
    ELSE <<"(", "getStatsData", "for">> \o call.tableId.s \o <<"):">>

\* A body the operation does not accept as its result: for the lister one
\* that is no array and has no length, for the fetcher one that is no array.
InvalidBody(call) ==
    /\ call.resp.ok
    /\ IF call.op = "getStatsList"
       THEN call.resp.kind \notin {"array", "string"}
       ELSE call.resp.kind # "array"

\* The provider's message of an error response, when it has one.
ProviderMessageOf(resp) ==
    IF Truthy(resp.dataMessage) THEN resp.dataMessage.s
    ELSE IF Truthy(resp.dataError) THEN resp.dataError.s
    ELSE <<>>

\* What the message of the raised error has to carry for the failed call.
Carried(resp) ==
    IF resp.response
    THEN <<"Status">> \o resp.status \o <<"-">> \o ProviderMessageOf(resp)
    ELSE IF resp.request THEN <<"No", "response", "received">>
    ELSE resp.message

Taken == Min(Len(listed), validatedInput.maxItems)
ListedId(i) == TableIdOf(listed[i], i)
Mentions(r, tableId) ==
    \/ "tableId" \in DOMAIN r /\ r.tableId = tableId
    \/ "sourceTableId" \in DOMAIN r /\ r.sourceTableId = tableId
IsAnyTableError(r) == TypeOf(r) = "error" /\ "tableId" \in DOMAIN r
FailedTables == {i \in DOMAIN history : ~history[i].fetched}

\* C13: when the Table Lister returned n descriptors, the loop takes the
\* first min(n, maxItems) of them; data is fetched for them one by one in
\* the Lister's order, once each, and for all of them by the end of the
\* loop; no descriptor after them is fetched or mentioned by a record; and
\* the only error records of tables are those of failed fetches.
C13_TruncationAndOrder ==
    Len(listed) > 0 =>
        /\ tablesToProcess = SubSeq(listed, 1, Taken)
        /\ Len(calls.getStatsData) <= Taken
        /\ Len(history) = Len(calls.getStatsData)
        /\ \A i \in DOMAIN calls.getStatsData :
                calls.getStatsData[i] = ListedId(i)
        /\ pc # "loop" => Len(calls.getStatsData) = Taken
        /\ \A i \in (Taken + 1)..Len(listed) : \A j \in DOMAIN sink :
                ~Mentions(sink[j], ListedId(i))
        /\ Cardinality(Positions(IsAnyTableError)) = Cardinality(FailedTables)

C13_Witness ==
    /\ pc = "done"
    /\ Len(listed) = 3 /\ validatedInput.maxItems = 2
    /\ calls.getStatsData = <<ListedId(1), ListedId(2)>>
    /\ FailedTables = {}
    /\ TypeOf(sink[Len(sink)]) = "summary"

\* C14: whenever the processing of one table ends and another table follows,
\* the delay has been invoked exactly once in between, with the delay of the
\* Configuration, whether the fetch of the earlier table succeeded or failed.
C14_DelayBetweenAnyTwoTables ==
    [][(pc = "loop" /\ pc' = "loop") =>
            calls'.sleep = Append(calls.sleep,
                                  validatedInput.delayBetweenRequests)]_vars

\* A message that indicates 401 or 403; the listing, or the data fetch of
\* some table, failed with such a message.
IndicatesAuth(message) ==
    Includes(message, <<"401">>) \/ Includes(message, <<"403">>)
AuthFailedListing == ListerRejected /\ IndicatesAuth(error)
AuthFailedFetches ==
    {i \in DOMAIN history :
        ~history[i].fetched /\ IndicatesAuth(history[i].message)}

\* C15 as stated: a finished run in which the listing or the data fetch of
\* some table failed with a message indicating 401 or 403 has gone through
\* Demo Fallback: a demo_summary has been emitted.
C15_FallbackFromAnyState ==
    (pc = "done" /\ (AuthFailedListing \/ AuthFailedFetches # {})) =>
        Cardinality(IsOfType("demo_summary")) = 1

\* C15 as amended: a failure indicating 401 or 403 raised by the listing
\* moves the run to Demo Fallback (the finished run has emitted demo records
\* and one demo_summary, nothing else); one raised while the data of a table
\* is fetched leaves one error record with the message for that table, the
\* loop goes on to the end of the list, and Demo Fallback is not entered as
\* long as the charting step has not been called.
C15_FallbackFromListingOnly ==
    /\ (pc = "done" /\ AuthFailedListing) =>
            DemoOutput /\ Cardinality(IsOfType("demo_summary")) = 1
    /\ \A i \in AuthFailedFetches :
        /\ \E j \in DOMAIN sink :
            /\ IsTableError(sink[j], history[i].tableId)
            /\ sink[j].error = history[i].message
        /\ calls.renderChart = 0 =>
            /\ pc # "catch"
            /\ IsOfType("demo_summary") = {}
            /\ pc = "done" =>
                /\ Len(history) = Taken
                /\ TypeOf(sink[Len(sink)]) = "summary"

C15_Witness ==
    /\ pc = "done"
    /\ AuthFailedFetches = {1}
    /\ Len(history) = 2 /\ history[2].fetched
    /\ IsOfType("demo_summary") = {}
    /\ TypeOf(sink[1]) = "error" /\ IndicatesAuth(sink[1].error)
    /\ TypeOf(sink[Len(sink)]) = "summary"

\* The positions of the error records of the top-level recovery point: they
\* carry the Configuration, the error records of tables carry a table id.
TopLevelErrors ==
    {j \in DOMAIN sink : TypeOf(sink[j]) = "error" /\ "input" \in DOMAIN sink[j]}

\* The failure caught at the top level has a message with none of "401",
\* "403" and "API" in it.
NonAuthTopLevelFailure ==
    /\ error # <<>>
    /\ ~Includes(error, <<"401">>)
    /\ ~Includes(error, <<"403">>)
    /\ ~Includes(error, <<"API">>)

\* C16: a finished run whose top-level failure has a message with none of
\* "401", "403" and "API" has emitted exactly one top-level error record,
\* which carries that message and the Configuration; every record after it
\* is a demo record, up to the last one, the only demo_summary, which counts
\* them; and no demo record comes before the error record.
C16_NonAuthTopLevelFailure ==
    (pc = "done" /\ NonAuthTopLevelFailure) =>
        \E j \in TopLevelErrors :
            /\ TopLevelErrors = {j}
            /\ sink[j].error = error
            /\ sink[j].input = validatedInput
            /\ j < Len(sink)
            /\ IsOfType("demo_summary") = {Len(sink)}
            /\ sink[Len(sink)].demoDataPoints = Len(sink) - j - 1
            /\ \A k \in (j + 1)..(Len(sink) - 1) : IsDemoRecord(sink[k])
            /\ \A k \in 1..(j - 1) : ~IsDemoRecord(sink[k])

C16_Witness ==
    /\ pc = "done" /\ NonAuthTopLevelFailure
    /\ error = NotAFunction("Actor.openCanvas")
    /\ TopLevelErrors # {}
    /\ Len(sink) >= 4
    /\ IsDemoRecord(sink[Len(sink) - 1])
    /\ TypeOf(sink[Len(sink)]) = "demo_summary"

\* The records of the Processing phase: raw records, structured records and
\* error records of tables.
IsPerTable(r) ==
    TypeOf(r) = "raw" \/ IsAnyTableError(r) \/ (IsDataPoint(r) /\ ~IsDemoRecord(r))
IsStructured(r) == IsDataPoint(r) /\ ~IsDemoRecord(r)

\* C17: a finished run whose loop went through all the tables taken has
\* emitted exactly one summary record; it comes after every record of the
\* Processing phase, its tablesProcessed is the number of tables taken
\* (failed tables included) and its totalDataPoints the number of structured
\* records in the sink.
C17_SummaryCounts ==
    (pc = "done" /\ Len(listed) > 0 /\ Len(history) = Taken) =>
        /\ Cardinality(IsOfType("summary")) = 1
        /\ \A s \in IsOfType("summary") :
            /\ \A j \in Positions(IsPerTable) : j < s
            /\ sink[s].tablesProcessed = Taken
            /\ sink[s].totalDataPoints = Cardinality(Positions(IsStructured))

\* The raw records and the structured records of a table, as they are in
\* the sink, and what the Normalizer returns for the rows fetched for it.
RawOf(tableId) == SelectSeq(sink, LAMBDA r : IsRawOf(r, tableId))
StructuredOf(tableId) == SelectSeq(sink, LAMBDA r : IsDataPointOf(r, tableId))
NormalizerRecords(h) ==
    normalizeStatisticalData(Payload(TRUE, h.rows), NoMetadata, h.tableId)
FormatIs(formats) == validatedInput.outputFormat \in formats

\* C18: for every table whose data fetch succeeded the sink has one raw
\* record (with the rows fetched) when outputFormat is raw or both and none
\* otherwise; it has the records of the Normalizer for these rows, one by
\* one and in order, when outputFormat is structured or both and none
\* otherwise; with both the raw record comes before the structured records
\* of its table; with raw there is no structured record, totalDataPoints is
\* 0 in the run and in its summary, and the charting step is never called.
C18_OutputFormat ==
    /\ \A i \in DOMAIN history : history[i].fetched =>
        /\ Len(RawOf(history[i].tableId)) =
                (IF FormatIs({<<"raw">>, <<"both">>}) THEN 1 ELSE 0)
        /\ \A k \in DOMAIN RawOf(history[i].tableId) :
                RawOf(history[i].tableId)[k].rawData = history[i].rows
        /\ StructuredOf(history[i].tableId) =
                (IF FormatIs({<<"structured">>, <<"both">>})
                 THEN NormalizerRecords(history[i]) ELSE <<>>)
        /\ \A r \in Positions(LAMBDA x : IsRawOf(x, history[i].tableId)) :
           \A d \in Positions(LAMBDA x : IsDataPointOf(x, history[i].tableId)) :
                r < d
    /\ (history # <<>> /\ FormatIs({<<"raw">>})) =>
        /\ Positions(IsStructured) = {}
        /\ totalDataPoints = 0
        /\ calls.renderChart = 0
        /\ \A s \in IsOfType("summary") : sink[s].totalDataPoints = 0

C18_Witness ==
    /\ pc = "done"
    /\ FormatIs({<<"both">>})
    /\ Len(history) = 1 /\ history[1].fetched /\ Len(history[1].rows) = 2
    /\ TypeOf(sink[1]) = "raw"
    /\ Len(StructuredOf(history[1].tableId)) = 2
    /\ sink[2] = StructuredOf(history[1].tableId)[1]
    /\ TypeOf(sink[Len(sink)]) = "summary"

\* A record of live data: a raw record or a structured record of a table.
IsLive(r) == TypeOf(r) = "raw" \/ IsStructured(r)

\* C19: no demo record and no demo_summary comes after a raw or structured
\* record of the Processing phase in the sink, whichever calls failed.
C19_LiveAndDemoNeverMix ==
    \A i \in DOMAIN sink : \A j \in DOMAIN sink :
        (i < j /\ IsLive(sink[i])) =>
            ~(IsDemoRecord(sink[j]) \/ TypeOf(sink[j]) = "demo_summary")

\* The positions of the terminal records: summary, demo_summary and the
\* no-data message.
Terminals ==
    {j \in DOMAIN sink :
        TypeOf(sink[j]) \in {"summary", "demo_summary"} \/ IsNoData(sink[j])}

\* C20: a run that has reached Done has emitted exactly one record among
\* summary, demo_summary and the no-data message, and it is the last record
\* of the run.
C20_OneTerminalRecord ==
    pc = "done" => Terminals = {Len(sink)} /\ Len(sink) >= 1

C20_Witness ==
    /\ pc = "done"
    /\ calls.renderChart = 1 /\ error # <<>>
    /\ IsLive(sink[1])
    /\ Terminals = {Len(sink)}
    /\ TypeOf(sink[Len(sink)]) = "demo_summary"

\* C21: whenever the Table Lister has raised, whatever the cause (an error
\* response of any status, no response, a transport error, an invalid
\* body), the message of its error contains "API"; the run then takes the
\* fallback branch: it never emits a top-level error record, and once
\* finished it has emitted demo records and one demo_summary, nothing else.
C21_ListingFailuresFallBack ==
    ListerRejected =>
        /\ Includes(error, <<"API">>)
        /\ TopLevelErrors = {}
        /\ IsOfType("error") = {}
        /\ pc = "done" =>
            DemoOutput /\ IsOfType("demo_summary") = {Len(sink)}

C21_Witness ==
    /\ pc = "done" /\ ListerRejected
    /\ ~IndicatesAuth(error)
    /\ Includes(error, <<"Network", "Error">>)
    /\ Includes(error, <<"API">>)
    /\ TopLevelErrors = {}
    /\ TypeOf(sink[Len(sink)]) = "demo_summary"

====
